---- MODULE Spec2Model ----
(***************************************************************************)
(* The module-instantiation hierarchy of a Verilog design: the lazy scope  *)
(* tree (ScopeItem and its subclasses, ProjectComponent) and the eager     *)
(* reverse instance index (InstancesView.indexTop), as a state machine.    *)
(*                                                                         *)
(* Strings are sequences of one-character strings, so that joining a path  *)
(* with '.' is a real concatenation.  An optional string (typeRef) is a    *)
(* sequence of length 0 (undefined) or 1 (the string).  A Symbol is an     *)
(* identifier into the table Symbols; an absent Symbol is Undefined.       *)
(***************************************************************************)
EXTENDS Integers, Sequences, FiniteSets, TLC

(***************************************************************************)
(* Bounds of the model.                                                    *)
(***************************************************************************)
\* builds (calls of indexTop) in one behaviour of Spec, which may overlap
MaxBuilds == 2
\* builds in one behaviour of SeqSpec, each awaited before the next starts
MaxSeqBuilds == 2
\* recursion depth of preOrderTraversal beyond which the model gives up
MaxDepth == 6
\* the count of visits made after a cancellation request saturates here
MaxCancelVisits == 2

(***************************************************************************)
(* The Symbol fact base: one workspace.                                    *)
(***************************************************************************)
Undefined == "undefined"

Sym(name, type, typeRef, children) ==
    [name |-> name, type |-> type, typeRef |-> typeRef, children |-> children]

Symbols ==
    \* Top: the scenario of the design description, with excluded kinds
    \* interleaved, a port, and an instance of a module that does not exist
       ("Top"     :> Sym(<<"T","o","p">>, "module", <<>>,
                       <<"Top.t", "Top.u1", "Top.clk", "Top.blk", "Top.x", "Top.f">>))
    @@ ("Top.t"   :> Sym(<<"t">>, "typedef", <<>>, <<>>))
    @@ ("Top.u1"  :> Sym(<<"u","1">>, "instance", << <<"L","e","a","f">> >>, <<>>))
    @@ ("Top.clk" :> Sym(<<"c","l","k">>, "port", <<>>, <<>>))
    @@ ("Top.blk" :> Sym(<<"b","l","k">>, "block", <<>>,
                       <<"Top.blk.e", "Top.blk.u2", "Top.blk.w">>))
    @@ ("Top.blk.e"  :> Sym(<<"e">>, "enum", <<>>, <<>>))
    @@ ("Top.blk.u2" :> Sym(<<"u","2">>, "instance", << <<"L","e","a","f">> >>, <<>>))
    \* a register that repeats the name of the instance before it
    @@ ("Top.blk.w"  :> Sym(<<"u","2">>, "register", <<>>, <<>>))
    @@ ("Top.x"   :> Sym(<<"x">>, "instance", << <<"G","h","o","s","t">> >>, <<>>))
    @@ ("Top.f"   :> Sym(<<"f">>, "function", <<>>, <<>>))
    \* Leaf: a port, an assertion and a parameter
    @@ ("Leaf"    :> Sym(<<"L","e","a","f">>, "module", <<>>,
                       <<"Leaf.a", "Leaf.chk", "Leaf.W">>))
    @@ ("Leaf.a"  :> Sym(<<"a">>, "port", << <<"W">> >>, <<>>))
    @@ ("Leaf.chk" :> Sym(<<"c","h","k">>, "assert", <<>>, <<>>))
    @@ ("Leaf.W"  :> Sym(<<"W">>, "parameter", <<>>, <<>>))
    \* Rec instantiates itself directly
    @@ ("Rec"     :> Sym(<<"R","e","c">>, "module", <<>>, <<"Rec.r">>))
    @@ ("Rec.r"   :> Sym(<<"r">>, "instance", << <<"R","e","c">> >>, <<>>))
    \* A and B instantiate each other; A also holds an instance with no typeRef
    @@ ("A"       :> Sym(<<"A">>, "module", <<>>, <<"A.b", "A.n">>))
    @@ ("A.b"     :> Sym(<<"b">>, "instance", << <<"B">> >>, <<>>))
    @@ ("A.n"     :> Sym(<<"n">>, "instance", <<>>, <<>>))
    @@ ("B"       :> Sym(<<"B">>, "module", <<>>, <<"B.a">>))
    @@ ("B.a"     :> Sym(<<"a">>, "instance", << <<"A">> >>, <<>>))
    \* Big: 3 instances of Mid, each 3 instances of Cell: 12 indexed instances
    @@ ("Big"     :> Sym(<<"B","i","g">>, "module", <<>>,
                       <<"Big.m1", "Big.m2", "Big.m3">>))
    @@ ("Big.m1"  :> Sym(<<"m","1">>, "instance", << <<"M","i","d">> >>, <<>>))
    @@ ("Big.m2"  :> Sym(<<"m","2">>, "instance", << <<"M","i","d">> >>, <<>>))
    @@ ("Big.m3"  :> Sym(<<"m","3">>, "instance", << <<"M","i","d">> >>, <<>>))
    @@ ("Mid"     :> Sym(<<"M","i","d">>, "module", <<>>,
                       <<"Mid.c1", "Mid.c2", "Mid.c3">>))
    @@ ("Mid.c1"  :> Sym(<<"c","1">>, "instance", << <<"C","e","l","l">> >>, <<>>))
    @@ ("Mid.c2"  :> Sym(<<"c","2">>, "instance", << <<"C","e","l","l">> >>, <<>>))
    @@ ("Mid.c3"  :> Sym(<<"c","3">>, "instance", << <<"C","e","l","l">> >>, <<>>))
    \* Cell has no children at all
    @@ ("Cell"    :> Sym(<<"C","e","l","l">>, "module", <<>>, <<>>))

SymIds == DOMAIN Symbols

\* the module definitions of the workspace, in the workspace index's order
ModuleSyms == <<"Top", "Leaf", "Rec", "A", "B", "Big", "Mid", "Cell">>

\* ext.index.findModuleSymbol(name): the first module of that name, or undefined
findModuleSymbol(name) ==
    LET hits == {i \in 1..Len(ModuleSyms) : Symbols[ModuleSyms[i]].name = name}
    IN  IF hits = {} THEN Undefined
        ELSE ModuleSyms[CHOOSE i \in hits : \A j \in hits : i <= j]

(***************************************************************************)
(* ScopeItem and its subclasses.  An item is a record; its class is cls.   *)
(***************************************************************************)
NoItem == [cls |-> "undefined"]
Pending == [cls |-> "pending"]

\* constructor(parent, instance, definition)
ScopeItem(cls, parent, instance, definition) ==
    [cls |-> cls, parent |-> parent, instance |-> instance, definition |-> definition]

NewModuleItem(parent, instance, definition) ==
    ScopeItem("ModuleItem", parent, instance, definition)

LogicItem(parent, instance) == ScopeItem("LogicItem", parent, instance, instance)

RootItem(instance) == ScopeItem("RootItem", NoItem, instance, instance)

\* the block left without a definition
InternalScopeItemNoDefinition(parent, scope) ==
    ScopeItem("InternalScopeItem", parent, scope, Undefined)

InternalScopeItem(parent, scope) == ScopeItem("InternalScopeItem", parent, scope, scope)

\* the parent's path left out
getPathNameOnly(item) == Symbols[item.instance].name

\* ScopeItem.getPath
RECURSIVE getPath(_)
getPath(item) ==
    IF item.parent = NoItem
    THEN Symbols[item.instance].name
    ELSE getPath(item.parent) \o <<".">> \o Symbols[item.instance].name

\* one kind forgotten
EXCLUDED_SYMS_NoFunction == {"enum", "typedef", "assert"}

EXCLUDED_SYMS == {"enum", "typedef", "assert", "function"}

NotExcluded(child) == Symbols[child].type \notin EXCLUDED_SYMS

\* childSyms.filter((child) => !EXCLUDED_SYMS.has(child.type)), order kept
RECURSIVE FilterExcluded(_)
FilterExcluded(s) ==
    IF s = <<>> THEN <<>>
    ELSE (IF NotExcluded(Head(s)) THEN <<Head(s)>> ELSE <<>>) \o FilterExcluded(Tail(s))

\* child.typeRef ?? ''
TypeRefOrEmpty(child) ==
    IF Symbols[child].typeRef = <<>> THEN <<>> ELSE Symbols[child].typeRef[1]

\* the body of the async map callback up to its first await: the item of a
\* block or of any other kind is there at once, an instance awaits its lookup
MapChildSync(this, child) ==
    IF Symbols[child].type = "block" THEN InternalScopeItem(this, child)
    ELSE IF Symbols[child].type = "instance" THEN Pending
    ELSE LogicItem(this, child)

\* the callback after its await: the lookup's answer becomes the definition
MapChildResolved(this, child) ==
    NewModuleItem(this, child, findModuleSymbol(TypeRefOrEmpty(child)))

\* the symbols ModuleItem.getChildren maps over (ScopeItem.getChildren: none)
ChildSymsOf(this) ==
    IF this.cls = "LogicItem" THEN <<>>
    ELSE IF this.definition = Undefined THEN <<>>
    ELSE IF Len(Symbols[this.definition].children) = 0 THEN <<>>
    ELSE FilterExcluded(Symbols[this.definition].children)

Range(f) == {f[x] : x \in DOMAIN f}

NoExp == [this |-> NoItem, syms |-> <<>>, items |-> <<>>, order |-> <<>>,
          returned |-> FALSE, result |-> <<>>]

PendingOf(exp) == {i \in 1..Len(exp.syms) : exp.items[i] = Pending}

\* the results collected as the promises complete: the items that need no
\* lookup first, then the instances in the order their lookups answered
PromiseAllByCompletion(exp) ==
    LET n    == Len(exp.syms)
        sync == SelectSeq([k \in 1..n |-> k], LAMBDA k : k \notin Range(exp.order))
        perm == sync \o exp.order
    IN  [k \in 1..n |-> exp.items[perm[k]]]

\* Promise.all(childItems): the results in the order of the promises
PromiseAll(exp) == [i \in 1..Len(exp.syms) |-> exp.items[i]]

\* getChildren returns once no promise is pending
Settle(exp) ==
    IF PendingOf(exp) = {}
    THEN [exp EXCEPT !.returned = TRUE, !.result = PromiseAll(exp)]
    ELSE exp

\* getChildren up to its first suspension: the promises of the children
\* (items); order is the order in which its lookups complete
BeginGetChildren(this) ==
    LET syms == ChildSymsOf(this)
    IN  Settle([this  |-> this,
                syms  |-> syms,
                items |-> [i \in 1..Len(syms) |-> MapChildSync(this, syms[i])],
                order |-> <<>>,
                returned |-> FALSE,
                result |-> <<>>])

\* one lookup of the expansion completes
CompleteLookup(exp, i) ==
    Settle([exp EXCEPT !.items[i] = MapChildResolved(exp.this, exp.syms[i]),
                       !.order = Append(@, i)])

(***************************************************************************)
(* The reverse index: InstancesView.modules, a DefaultMap from a           *)
(* definition Symbol to an (index) ModuleItem, whose instances map a path  *)
(* to an InstanceViewItem.                                                 *)
(***************************************************************************)
\* the item made without its parent
InstanceViewItemNoParent(parent, inst) == [parent |-> Undefined, inst |-> inst]

InstanceViewItem(parent, inst) == [parent |-> parent, inst |-> inst]

\* new ModuleItem(sym) of InstancesView: no instances yet
IndexModuleItem(definition) == [definition |-> definition, instances |-> <<>>]

\* DefaultMap.get: the entry of key, made by the factory when there is none
DefaultMapGet(mods, key) ==
    IF key \in DOMAIN mods THEN mods ELSE (key :> IndexModuleItem(key)) @@ mods

\* ModuleItem.addInstance
addInstance(m, item) ==
    [m EXCEPT !.instances =
        (getPath(item) :> InstanceViewItem(m.definition, item)) @@ @]

\* the clear left out
ModulesClearNothing(mods) == mods

\* this.modules.clear()
ModulesClear(mods) == <<>>

\* item instanceof InstanceItem: the node of a module instance
IsInstanceItem(item) == item.cls = "ModuleItem"

\* the test without its second operand
IndexedWithoutDefinitionTest(item) == IsInstanceItem(item)

\* the test of the traversal callback
Indexed(item) == IsInstanceItem(item) /\ item.definition # Undefined

\* the callback's effect on the index
IndexVisit(mods, item) ==
    IF Indexed(item)
    THEN LET got == DefaultMapGet(mods, item.definition)
         IN  [got EXCEPT ![item.definition] = addInstance(@, item)]
    ELSE mods

(***************************************************************************)
(* Progress.  pct is a double in the code; here it is a fixed-point number *)
(* with PctScale units to one percent.                                     *)
(***************************************************************************)
PctScale == 1000000
PctCeiling == 95
PctRateDen == 1000
DoneIncrement == 100

Report(increment, message) == [increment |-> increment, message |-> message]

\* pct += (95.0 - pct) * 0.001
NextPct(pct) == pct + ((PctCeiling * PctScale - pct) \div PctRateDen)

\* Math.floor(pct)
Floor(pct) == pct \div PctScale

\* the operands exchanged
IncrementReversed(fl, lastReport) == lastReport - fl

\* fl - lastReport
Increment(fl, lastReport) == fl - lastReport

\* the callback's effect on the progress state of build b
ProgressVisit(b, item) ==
    IF Indexed(item)
    THEN LET pct == NextPct(b.pct)
             fl  == Floor(pct)
         IN  IF fl > b.lastReport
             THEN [b EXCEPT !.pct = pct, !.lastReport = fl,
                            !.reports = Append(@, Report(Increment(fl, b.lastReport), ""))]
             ELSE [b EXCEPT !.pct = pct]
    ELSE b

\* progress.report({ increment: 100, message: 'Done' })
ReportDone(b) == [b EXCEPT !.reports = Append(@, Report(DoneIncrement, "Done"))]

(***************************************************************************)
(* preOrderTraversal: visit the item, expand it, traverse each child.      *)
(* The recursion is a stack of frames; the top frame's getChildren may be  *)
(* in flight (expanding).                                                  *)
(***************************************************************************)
Frame(node) == [node |-> node, expanded |-> FALSE, children |-> <<>>, next |-> 1]

\* the definitions on the recursion path
OnPathDefs(stack) == {stack[i].node.definition : i \in 1..Len(stack)}

\* the guard left out: every resolved item is expanded
TruncatedNever(stack, item) == FALSE

\* cycle guard: the item's definition is already on the path above it
Truncated(stack, item) ==
    item.definition # Undefined /\ item.definition \in OnPathDefs(stack)

Saturate(n, max) == IF n < max THEN n + 1 ELSE n

\* fn(item), as build b sees it apart from the index
VisitBuild(b, item) ==
    [ProgressVisit(b, item) EXCEPT
        !.visited = Append(@, getPath(item)),
        !.afterCancel = IF b.cancel THEN Saturate(@, MaxCancelVisits) ELSE @]

\* preOrderTraversal(item) up to its first suspension
Enter(b, item) ==
    LET v == VisitBuild(b, item)
    IN  IF Len(b.stack) >= MaxDepth
        THEN [v EXCEPT !.pc = "overflow"]
        ELSE IF Truncated(b.stack, item)
        THEN [v EXCEPT !.stack = Append(@, Frame(item)),
                       !.expanding = FALSE, !.exp = NoExp]
        ELSE [v EXCEPT !.stack = Append(@, Frame(item)),
                       !.expanding = TRUE, !.exp = BeginGetChildren(item)]

\* the callback of withProgress up to its first suspension
NewBuild(t) ==
    Enter([top |-> t, pc |-> "run", pct |-> 0, lastReport |-> 0,
           reports |-> <<Report(0, "Starting...")>>,
           stack |-> <<>>, expanding |-> FALSE, exp |-> NoExp,
           cancel |-> FALSE, afterCancel |-> 0, visited |-> <<>>],
          RootItem(t))

VARIABLES
    modules,    \* InstancesView.modules
    builds,     \* the calls of indexTop so far, each with its locals
    top,        \* ProjectComponent.top
    call,       \* the setInstance call in flight, with its locals
    calls,      \* the setInstance calls that have returned, with what they did
    shown,      \* the latest ProjectComponent.getChildren call of the tree view
    reveal      \* the latest InstancesView.revealPath call

vars == <<modules, builds, top, call, calls, shown, reveal>>

\* the state of ProjectComponent and of its callers
pvars == <<top, call, calls, shown>>

\* the state of InstancesView
ivars == <<modules, builds, reveal>>

Tops == {ModuleSyms[i] : i \in 1..Len(ModuleSyms)}

BuildIds == 1..Len(builds)

AllDone == \A i \in BuildIds : builds[i].pc # "run"

\* no setInstance call in flight
IdleCall == [pc |-> "idle", exp |-> NoExp]

\* the tree view has asked nothing yet
NoShown == [pc |-> "none", exp |-> NoExp]

\* revealPath has not been called
NoReveal == [n |-> 0]

Init ==
    /\ modules = <<>> /\ builds = <<>> /\ reveal = NoReveal
    /\ top = Undefined /\ call = IdleCall /\ calls = <<>> /\ shown = NoShown

\* indexTop(top) up to its first suspension
IndexTopBody(t) ==
    /\ builds' = Append(builds, NewBuild(t))
    /\ modules' = IndexVisit(ModulesClear(modules), RootItem(t))
    /\ UNCHANGED <<pvars, reveal>>

\* indexTop is called, whatever the earlier calls are doing
IndexTop(t) ==
    /\ Len(builds) < MaxBuilds
    /\ IndexTopBody(t)

\* indexTop is called once every earlier call has returned
IndexTopAwaited(t) ==
    /\ Len(builds) < MaxSeqBuilds
    /\ AllDone
    /\ IndexTopBody(t)

\* a findModuleSymbol lookup of build i answers
LookupDone(i, k) ==
    /\ builds[i].pc = "run"
    /\ builds[i].expanding
    /\ k \in PendingOf(builds[i].exp)
    /\ builds' = [builds EXCEPT ![i].exp = CompleteLookup(@, k)]
    /\ UNCHANGED <<modules, pvars, reveal>>

\* build i resumes: getChildren has returned (or the item was not expanded);
\* it traverses the next child, or returns from the item, at the root from
\* the whole traversal
Advance(i) ==
    LET b     == builds[i]
        n     == Len(b.stack)
        stack == IF b.expanding
                 THEN [b.stack EXCEPT ![n].children = b.exp.result,
                                      ![n].expanded = TRUE]
                 ELSE b.stack
        f     == stack[n]
    IN  /\ b.pc = "run"
        /\ b.expanding => b.exp.returned
        /\ UNCHANGED <<pvars, reveal>>
        /\ IF f.next <= Len(f.children)
           THEN LET child == f.children[f.next]
                    b1 == [b EXCEPT !.stack = [stack EXCEPT ![n].next = @ + 1]]
                IN  /\ builds' = [builds EXCEPT ![i] = Enter(b1, child)]
                    /\ modules' = IndexVisit(modules, child)
           ELSE LET b1 == [b EXCEPT !.stack = SubSeq(stack, 1, n - 1),
                                    !.expanding = FALSE, !.exp = NoExp]
                IN  /\ builds' = [builds EXCEPT ![i] =
                            IF n = 1 THEN [ReportDone(b1) EXCEPT !.pc = "done"] ELSE b1]
                    /\ UNCHANGED modules

\* the host asks build i to stop
RequestCancel(i) ==
    /\ builds[i].pc = "run"
    /\ ~builds[i].cancel
    /\ builds' = [builds EXCEPT ![i].cancel = TRUE]
    /\ UNCHANGED <<modules, pvars, reveal>>

Next ==
    \/ \E t \in Tops : IndexTop(t)
    \/ \E i \in BuildIds : \E k \in PendingOf(builds[i].exp) : LookupDone(i, k)
    \/ \E i \in BuildIds : Advance(i)

\* every call of indexTop may overlap the earlier ones
Spec == Init /\ [][Next]_vars

NextSeq ==
    \/ \E t \in Tops : IndexTopAwaited(t)
    \/ \E i \in BuildIds : \E k \in PendingOf(builds[i].exp) : LookupDone(i, k)
    \/ \E i \in BuildIds : Advance(i)

\* the caller awaits each indexTop before the next
SeqSpec == Init /\ [][NextSeq]_vars

NextCancel ==
    \/ \E t \in Tops : AllDone /\ IndexTop(t)
    \/ \E i \in BuildIds : \E k \in PendingOf(builds[i].exp) : LookupDone(i, k)
    \/ \E i \in BuildIds : Advance(i)
    \/ \E i \in BuildIds : RequestCancel(i)

\* awaited builds, with a host that may ask a build in flight to stop
CancelSpec == Init /\ [][NextCancel]_vars

\* resolved lookups eventually answer and a resumable build is resumed: the
\* event loop runs every continuation that is ready
FairSeqSpec ==
    /\ SeqSpec
    /\ \A i \in 1..MaxSeqBuilds :
        /\ WF_vars(i \in BuildIds /\ Advance(i))
        /\ WF_vars(i \in BuildIds /\ \E k \in PendingOf(builds[i].exp) : LookupDone(i, k))

(***************************************************************************)
(* What the symbol graph says, independently of the traversal.             *)
(***************************************************************************)
\* the modules that the instances declared under sym (through blocks) name
RECURSIVE InstantiatedUnder(_)
InstantiatedUnder(sym) ==
    UNION {IF Symbols[c].type = "instance"
             THEN {m \in Tops : Symbols[c].typeRef = <<Symbols[m].name>>}
           ELSE IF Symbols[c].type = "block" THEN InstantiatedUnder(c)
           ELSE {}
           : c \in {Symbols[sym].children[k] : k \in 1..Len(Symbols[sym].children)}}

\* the modules reachable from the set ms in at most n instantiation steps
RECURSIVE ReachIn(_, _)
ReachIn(ms, n) ==
    IF n = 0 THEN {}
    ELSE LET step == UNION {InstantiatedUnder(m) : m \in ms}
         IN  step \cup ReachIn(step, n - 1)

\* the modules that instantiate themselves, directly or transitively
SelfInstantiating == {m \in Tops : m \in ReachIn({m}, Cardinality(Tops))}

\* C1: a build started at a module that instantiates itself (directly or
\* transitively) never exceeds the recursion bound and eventually completes,
\* and at its completion the index holds an instance of that module.
C1_CyclicBuildTerminates ==
    /\ [](\A i \in BuildIds : builds[i].pc # "overflow")
    /\ \A n \in 1..MaxSeqBuilds :
         (Len(builds) >= n /\ builds[n].pc = "run" /\ builds[n].top \in SelfInstantiating)
           ~> (/\ Len(builds) = n
               /\ builds[n].pc = "done"
               /\ builds[n].top \in DOMAIN modules
               /\ \E p \in DOMAIN modules[builds[n].top].instances :
                     modules[builds[n].top].instances[p].inst.definition = builds[n].top)

\* a build of a self-instantiating module has completed and its index holds
\* the instance at which the traversal was cut
C1_Witness ==
    \E i \in BuildIds :
        /\ builds[i].top = "B" /\ builds[i].pc = "done" /\ i = Len(builds)
        /\ SelfInstantiating = {"Rec", "A", "B"}
        /\ <<"B", ".", "a", ".", "b">> \in DOMAIN modules["B"].instances

(***************************************************************************)
(* Progress (C2, C3).                                                      *)
(***************************************************************************)
\* the cumulative progress: the sum of the increments reported so far
RECURSIVE SumIncrements(_)
SumIncrements(reports) ==
    IF reports = <<>> THEN 0
    ELSE Head(reports).increment + SumIncrements(Tail(reports))

DoneReports(b) == {k \in 1..Len(b.reports) : b.reports[k].message = "Done"}

\* C2: in every build the cumulative progress reported never exceeds 100,
\* and it is exactly 100 once the build has completed.
C2_CumulativeProgressAtMost100 ==
    \A i \in BuildIds :
        /\ SumIncrements(builds[i].reports) <= 100
        /\ builds[i].pc = "done" => SumIncrements(builds[i].reports) = 100

\* C3: no reported increment is negative; 'Done' is reported at most once,
\* exactly once in a completed build, as its last report; and after 'Done'
\* the build visits no node and reports nothing.
C3_ProgressMonotoneDoneOnce ==
    /\ [](\A i \in BuildIds :
            /\ \A k \in 1..Len(builds[i].reports) : builds[i].reports[k].increment >= 0
            /\ Cardinality(DoneReports(builds[i])) <= 1
            /\ builds[i].pc = "run" => DoneReports(builds[i]) = {}
            /\ builds[i].pc = "done" => DoneReports(builds[i]) = {Len(builds[i].reports)})
    /\ [][\A i \in BuildIds :
            DoneReports(builds[i]) # {} =>
                /\ builds'[i].visited = builds[i].visited
                /\ builds'[i].reports = builds[i].reports]_vars

\* a completed build that reported a positive increment on the way
C3_Witness ==
    \E i \in BuildIds :
        /\ builds[i].pc = "done"
        /\ Len(builds[i].visited) = 13
        /\ builds[i].reports =
              <<Report(0, "Starting..."), Report(1, ""), Report(100, "Done")>>

(***************************************************************************)
(* Cancellation (C4) and overlapping builds (C5).                          *)
(***************************************************************************)
\* C4: once a stop has been requested of a build in flight, the build
\* visits no node beyond the one whose visit was in progress.
C4_CancelStopsTheBuild ==
    \A i \in BuildIds : builds[i].cancel => builds[i].afterCancel <= 1

\* the root of the tree an item belongs to
RECURSIVE RootOf(_)
RootOf(item) == IF item.parent = NoItem THEN item ELSE RootOf(item.parent)

\* the items the index holds
IndexedItems ==
    UNION {{modules[d].instances[p].inst : p \in DOMAIN modules[d].instances}
           : d \in DOMAIN modules}

\* C5: every entry of the index was found under the top of the latest
\* build: no write of an earlier build lands after the latest build has
\* cleared the index.
C5_NoStaleWrites ==
    \A item \in IndexedItems : RootOf(item).instance = builds[Len(builds)].top

(***************************************************************************)
(* The scope tree under a top, read off the symbol graph without the       *)
(* asynchronous machinery: what a completed traversal has to have seen.    *)
(***************************************************************************)
\* the child items of an item, every lookup answered
ChildItemsOf(item) ==
    LET syms == ChildSymsOf(item)
    IN  {IF Symbols[syms[k]].type = "instance"
           THEN MapChildResolved(item, syms[k])
           ELSE MapChildSync(item, syms[k]) : k \in 1..Len(syms)}

\* the item and all items below it, down to the items the traversal does
\* not expand because their definition is on the path (defs) above them
RECURSIVE ItemsUnder(_, _)
ItemsUnder(item, defs) ==
    {item} \cup
        (IF item.definition # Undefined /\ item.definition \in defs THEN {}
         ELSE UNION {ItemsUnder(c, defs \cup {item.definition}) : c \in ChildItemsOf(item)})

\* the module instances with a resolved definition under top
InstancesUnder(t) ==
    {item \in ItemsUnder(RootItem(t), {}) :
        item.cls = "ModuleItem" /\ item.definition # Undefined}

\* the names from the root down to the item
RECURSIVE NamesDown(_)
NamesDown(item) ==
    (IF item.parent = NoItem THEN <<>> ELSE NamesDown(item.parent))
        \o <<Symbols[item.instance].name>>

\* names joined with '.'
RECURSIVE JoinDots(_)
JoinDots(names) ==
    IF Len(names) = 1 THEN names[1]
    ELSE names[1] \o <<".">> \o JoinDots(Tail(names))

\* the hierarchical path of an item
HierPath(item) == JoinDots(NamesDown(item))

\* the index a build from t alone produces
ExpectedIndex(t) ==
    LET insts == InstancesUnder(t)
        defs  == {item.definition : item \in insts}
    IN  [d \in defs |->
            [definition |-> d,
             instances |->
                [p \in {HierPath(item) : item \in {x \in insts : x.definition = d}} |->
                    [parent |-> d,
                     inst |-> CHOOSE item \in insts :
                                 item.definition = d /\ HierPath(item) = p]]]]

LatestDone == builds # <<>> /\ builds[Len(builds)].pc = "done"

(***************************************************************************)
(* The index after awaited builds (C6, C7).                                *)
(***************************************************************************)
\* C6: with each build awaited before the next, the index never holds an
\* entry that the latest build did not produce, and once the latest build
\* has completed the index is exactly the index of that build alone.
C6_IndexRebuiltWholesale ==
    /\ \A item \in IndexedItems : item \in InstancesUnder(builds[Len(builds)].top)
    /\ LatestDone => modules = ExpectedIndex(builds[Len(builds)].top)

\* a second build of another top has completed; the first build had indexed
\* definitions that the second does not produce
C6_Witness ==
    /\ Len(builds) = 2 /\ LatestDone
    /\ builds[1].top = "Top" /\ builds[2].top = "Big"
    /\ DOMAIN modules = {"Mid", "Cell"}

\* C7: after a completed build, every module instance with a resolved
\* definition d under the top is what the index holds for d at the
\* instance's hierarchical path; two instances of one definition at
\* different paths are two entries.
C7_EveryInstanceIndexedAtItsPath ==
    LatestDone =>
        /\ \A item \in InstancesUnder(builds[Len(builds)].top) :
              /\ item.definition \in DOMAIN modules
              /\ HierPath(item) \in DOMAIN modules[item.definition].instances
              /\ modules[item.definition].instances[HierPath(item)].inst = item
        /\ \A d \in DOMAIN modules :
              Cardinality(DOMAIN modules[d].instances)
                  = Cardinality({item \in InstancesUnder(builds[Len(builds)].top) :
                                    item.definition = d})

\* the build of Top has completed: Leaf is indexed at Top.u1 and, through
\* the block, at Top.blk.u2, as two distinct items
C7_Witness ==
    /\ LatestDone /\ builds[Len(builds)].top = "Top"
    /\ DOMAIN modules["Leaf"].instances =
          {<<"T","o","p",".","u","1">>, <<"T","o","p",".","b","l","k",".","u","2">>}
    /\ modules["Leaf"].instances[<<"T","o","p",".","u","1">>].inst.instance = "Top.u1"
    /\ modules["Leaf"].instances[<<"T","o","p",".","b","l","k",".","u","2">>].inst.instance
          = "Top.blk.u2"

(***************************************************************************)
(* What getChildren returns (C8, C9, C10).                                 *)
(***************************************************************************)
\* the getChildren calls of build b whose result the state shows: those
\* of the items on the recursion path, and the call that has just returned
Expansions(b) ==
    {[this |-> b.stack[k].node, result |-> b.stack[k].children]
        : k \in {j \in 1..Len(b.stack) : b.stack[j].expanded}}
    \cup (IF b.expanding /\ b.exp.returned
            THEN {[this |-> b.exp.this, result |-> b.exp.result]} ELSE {})

\* the getChildren calls of ModuleItem and its subclasses on a definition
ModuleExpansions ==
    {e \in UNION {Expansions(builds[i]) : i \in BuildIds} :
        e.this.cls # "LogicItem" /\ e.this.definition # Undefined}

DeclaredChildren(def) == {Symbols[def].children[k] : k \in 1..Len(Symbols[def].children)}

\* C8: in what ModuleItem.getChildren returns, a child symbol of kind enum,
\* typedef, assert or function has no item, every other child symbol has
\* exactly one, and there is no item of anything else.
C8_ExcludedKindsYieldNoChild ==
    \A e \in ModuleExpansions :
        /\ \A c \in DeclaredChildren(e.this.definition) :
              Cardinality({k \in 1..Len(e.result) : e.result[k].instance = c})
                  = IF Symbols[c].type \in {"enum", "typedef", "assert", "function"}
                      THEN 0 ELSE 1
        /\ \A k \in 1..Len(e.result) :
              e.result[k].instance \in DeclaredChildren(e.this.definition)

\* getChildren of the root of Top has returned four items for six child
\* symbols, two of them of excluded kinds
C8_Witness ==
    \E e \in ModuleExpansions :
        /\ e.this = RootItem("Top")
        /\ Len(Symbols["Top"].children) = 6
        /\ Len(e.result) = 4
        /\ Symbols["Top.t"].type = "typedef" /\ Symbols["Top.f"].type = "function"

\* the child symbols of def that are not of an excluded kind, as declared
DeclaredKept(def) ==
    SelectSeq(Symbols[def].children,
              LAMBDA c : Symbols[c].type \notin {"enum", "typedef", "assert", "function"})

\* C9: the items ModuleItem.getChildren returns are those of the
\* non-excluded child symbols in declaration order, whatever the order in
\* which the lookups of the instances completed.
C9_ChildrenInDeclarationOrder ==
    \A e \in ModuleExpansions :
        [k \in 1..Len(e.result) |-> e.result[k].instance] = DeclaredKept(e.this.definition)

\* the three lookups of the root of Big completed last to first, and
\* getChildren has returned m1, m2, m3
C9_Witness ==
    \E i \in BuildIds :
        /\ builds[i].expanding /\ builds[i].exp.returned
        /\ builds[i].exp.this = RootItem("Big")
        /\ builds[i].exp.order = <<3, 2, 1>>
        /\ [k \in 1..3 |-> builds[i].exp.result[k].instance] = <<"Big.m1", "Big.m2", "Big.m3">>

\* the instance symbols whose typeRef names no module of the workspace
DanglingInstances ==
    {c \in SymIds :
        /\ Symbols[c].type = "instance"
        /\ \A m \in Tops : Symbols[c].typeRef # <<Symbols[m].name>>}

\* C10: an instance whose typeRef names no module still has its item in
\* what getChildren returns, with no definition; getChildren of that item
\* returns the empty sequence; the item is visited by a completed build; no
\* build overruns; and the index has no entry for the item nor for an absent
\* definition.
C10_UnresolvedInstance ==
    /\ \A e \in ModuleExpansions :
          \A c \in DeclaredChildren(e.this.definition) \cap DanglingInstances :
              \E k \in 1..Len(e.result) :
                  /\ e.result[k].instance = c
                  /\ e.result[k].definition = Undefined
    /\ \A i \in BuildIds :
          /\ builds[i].pc # "overflow"
          /\ (builds[i].expanding /\ builds[i].exp.this.instance \in DanglingInstances)
                => (builds[i].exp.returned /\ builds[i].exp.result = <<>>)
          /\ builds[i].pc = "done" =>
                \A item \in ItemsUnder(RootItem(builds[i].top), {}) :
                    item.instance \in DanglingInstances
                        => \E k \in 1..Len(builds[i].visited) :
                              builds[i].visited[k] = HierPath(item)
    /\ Undefined \notin DOMAIN modules
    /\ \A item \in IndexedItems : item.instance \notin DanglingInstances

\* the build of Top has completed: Top.x, whose type Ghost does not exist,
\* was visited and the index holds Leaf only
C10_Witness ==
    /\ LatestDone /\ builds[Len(builds)].top = "Top"
    /\ "Top.x" \in DanglingInstances
    /\ \E k \in 1..Len(builds[Len(builds)].visited) :
          builds[Len(builds)].visited[k] = <<"T", "o", "p", ".", "x">>
    /\ DOMAIN modules = {"Leaf"}

(***************************************************************************)
(* ProjectComponent: the selected top, the tree provider of the hierarchy  *)
(* view (getChildren, getParent) and setInstance, which walks a            *)
(* hierarchical path down the tree.                                        *)
(***************************************************************************)
\* the longest path asked of setInstance, in segments
MaxSegments == 3

\* the setInstance calls of one behaviour
MaxCalls == 2

\* how deep the tree view opens the hierarchy
MaxShownDepth == 3

Digits == {"0", "1", "2", "3", "4", "5", "6", "7", "8", "9"}

\* \d+ at the start of s: the digits it takes
RECURSIVE LeadingDigits(_)
LeadingDigits(s) ==
    IF s # <<>> /\ Head(s) \in Digits THEN 1 + LeadingDigits(Tail(s)) ELSE 0

\* /\[\d+\]/ at the start of s: the length of its match, 0 when it fails
MatchAtStart(s) ==
    IF s # <<>> /\ Head(s) = "["
    THEN LET d == LeadingDigits(Tail(s))
         IN  IF d >= 1 /\ Len(s) >= d + 2 /\ s[d + 2] = "]" THEN d + 2 ELSE 0
    ELSE 0

\* the brackets left in
ReplaceBracketsNothing(s) == s

\* instance.replace(/\[\d+\]/g, ''): one pass from the left, each match
\* dropped and the scan resumed after it
RECURSIVE ReplaceBrackets(_)
ReplaceBrackets(s) ==
    IF s = <<>> THEN <<>>
    ELSE IF MatchAtStart(s) > 0
         THEN ReplaceBrackets(SubSeq(s, MatchAtStart(s) + 1, Len(s)))
         ELSE <<Head(s)>> \o ReplaceBrackets(Tail(s))

\* cleaned.split('.'): at least one part, '' for the empty string
RECURSIVE SplitDots(_)
SplitDots(s) ==
    LET dots == {i \in 1..Len(s) : s[i] = "."}
    IN  IF dots = {} THEN <<s>>
        ELSE LET d == CHOOSE i \in dots : \A j \in dots : i <= j
             IN  <<SubSeq(s, 1, d - 1)>> \o SplitDots(SubSeq(s, d + 1, Len(s)))

\* the test of the top left out
RootChildrenUntested(t) ==
    [this |-> NoItem, syms |-> <<>>, items |-> <<RootItem(t)>>, order |-> <<>>,
     returned |-> TRUE, result |-> <<RootItem(t)>>]

\* ProjectComponent.getChildren(undefined): no await, the answer is there
RootChildren(t) ==
    LET items == IF t = Undefined THEN <<>> ELSE <<RootItem(t)>>
    IN  [this |-> NoItem, syms |-> <<>>, items |-> items, order |-> <<>>,
         returned |-> TRUE, result |-> items]

\* ProjectComponent.getChildren(element)
ProjectGetChildren(t, element) ==
    IF element = NoItem THEN RootChildren(t) ELSE BeginGetChildren(element)

\* the root handed out for every element
getParentNone(element) == NoItem

\* ProjectComponent.getParent
getParent(element) == element.parent

\* the last child of that name
FindChildLast(children, part) ==
    LET hits == {k \in 1..Len(children) : Symbols[children[k].instance].name = part}
    IN  IF hits = {} THEN NoItem
        ELSE children[CHOOSE k \in hits : \A j \in hits : j <= k]

\* children.find((child) => child.instance.name === part)
FindChild(children, part) ==
    LET hits == {k \in 1..Len(children) : Symbols[children[k].instance].name = part}
    IN  IF hits = {} THEN NoItem
        ELSE children[CHOOSE k \in hits : \A j \in hits : k <= j]

NoMessage == [shown |-> FALSE, part |-> <<>>, parent |-> <<>>]

TopLevelText == <<"t", "o", "p", " ", "l", "e", "v", "e", "l">>

\* the item's own name in place of the item searched
CouldNotFindSelf(part, current) ==
    [shown |-> TRUE, part |-> part, parent |-> part]

\* `Could not find instance ${part} in ${current?.instance.name ?? 'top level'}`
CouldNotFind(part, current) ==
    [shown |-> TRUE, part |-> part,
     parent |-> IF current = NoItem THEN TopLevelText
                ELSE Symbols[current.instance].name]

\* the arguments of setInstance: a string or a vscode.Uri
PathNames == {<<"T","o","p">>, <<"b","l","k">>, <<"u","2">>}

IndexSuffixes == {<<>>, <<"[","1","2","]">>, <<"[","[","1","]","2","]">>}

PathSegments == {n \o x : n \in PathNames, x \in IndexSuffixes}

Paths ==
    {<<>>} \cup
    {JoinDots(segs) : segs \in UNION {[1..n -> PathSegments] : n \in 1..MaxSegments}}

StringArg(text) == [uri |-> FALSE, text |-> text]

UriArg == [uri |-> TRUE, text |-> <<>>]

Arguments == {StringArg(p) : p \in Paths} \cup {UriArg}

\* the characters of s inside a bracketed run of digits, brackets included
InIndexSuffix(s) ==
    LET opens  == {i \in 1..Len(s) : s[i] = "["}
        closes == {j \in 1..Len(s) : s[j] = "]"}
        runs   == {r \in opens \X closes :
                      /\ r[2] > r[1] + 1
                      /\ \A x \in (r[1] + 1)..(r[2] - 1) : s[x] \in Digits}
    IN  UNION {r[1]..r[2] : r \in runs}

\* s with every bracketed run of digits taken out
WithoutIndexSuffixes(s) ==
    LET inside == InIndexSuffix(s)
        keep   == SelectSeq([m \in 1..Len(s) |-> m], LAMBDA m : m \notin inside)
    IN  [k \in 1..Len(keep) |-> s[keep[k]]]

\* what setInstance is called with: any argument at first, and then the
\* argument of the call before with its index suffixes taken out
NextArguments ==
    IF calls = <<>> THEN Arguments
    ELSE {StringArg(WithoutIndexSuffixes(calls[Len(calls)].arg.text))}

\* what a returned setInstance call did
Returned(c, revealed, message) ==
    [top |-> c.top, arg |-> c.arg, parts |-> c.parts, fetched |-> c.fetched,
     revealed |-> revealed, message |-> message]

\* selectTopLevel, the user picking t: newtop is defined
SelectTopLevel(t) ==
    /\ top' = t
    /\ UNCHANGED <<ivars, call, calls, shown>>

\* setTopLevel: this.top = await selectModule(doc), a module or undefined
SetTopLevel(r) ==
    /\ top' = r
    /\ UNCHANGED <<ivars, call, calls, shown>>

\* clearTopLevel
ClearTopLevel ==
    /\ top' = Undefined
    /\ UNCHANGED <<ivars, call, calls, shown>>

\* setInstance up to its first await. Without a top it opens the selection
\* (selectTopLevel.func() is not awaited: top is still undefined at the
\* second test) and returns; a Uri returns; a string is cleaned and split
\* and the loop asks for the children of undefined
SetInstance(arg) ==
    /\ call = IdleCall
    /\ Len(calls) < MaxCalls
    /\ LET c == [pc |-> "walk", top |-> top, arg |-> arg,
                 parts |-> <<>>, k |-> 1, current |-> NoItem,
                 exp |-> NoExp, fetched |-> 0]
       IN  IF top = Undefined \/ arg.uri
           THEN /\ calls' = Append(calls, Returned(c, NoItem, NoMessage))
                /\ call' = call
           ELSE /\ call' = [c EXCEPT !.parts = SplitDots(ReplaceBrackets(arg.text)),
                                     !.exp = ProjectGetChildren(top, NoItem),
                                     !.fetched = 1]
                /\ calls' = calls
    /\ UNCHANGED <<ivars, top, shown>>

\* one lookup of the getChildren call that setInstance awaits completes
CallLookupDone(i) ==
    /\ call.pc = "walk"
    /\ i \in PendingOf(call.exp)
    /\ call' = [call EXCEPT !.exp = CompleteLookup(@, i)]
    /\ UNCHANGED <<ivars, top, calls, shown>>

\* the loop body once getChildren has returned: find the part among the
\* children; none: the error message and return; found: it is current, and
\* either the next part asks for its children or the loop ends and current
\* is revealed
WalkStep ==
    /\ call.pc = "walk"
    /\ call.exp.returned
    /\ LET part  == call.parts[call.k]
           child == FindChild(call.exp.result, part)
       IN  IF child = NoItem
           THEN /\ calls' = Append(calls,
                                   Returned(call, NoItem, CouldNotFind(part, call.current)))
                /\ call' = IdleCall
           ELSE IF call.k = Len(call.parts)
           THEN /\ calls' = Append(calls, Returned(call, child, NoMessage))
                /\ call' = IdleCall
           ELSE /\ call' = [call EXCEPT !.k = @ + 1,
                                        !.current = child,
                                        !.exp = ProjectGetChildren(top, child),
                                        !.fetched = @ + 1]
                /\ calls' = calls
    /\ UNCHANGED <<ivars, top, shown>>

\* the tree view asks the provider for the roots
ShowRoot ==
    /\ shown' = [pc |-> "asked", top |-> top, element |-> NoItem,
                 exp |-> ProjectGetChildren(top, NoItem)]
    /\ UNCHANGED <<ivars, top, call, calls>>

\* the length of the parent chain of an item
RECURSIVE Depth(_)
Depth(item) == IF item.parent = NoItem THEN 0 ELSE 1 + Depth(item.parent)

\* the tree view opens an item it was given and asks for its children
ShowChildren(k) ==
    /\ shown.pc = "asked"
    /\ shown.exp.returned
    /\ k \in 1..Len(shown.exp.result)
    /\ Depth(shown.exp.result[k]) < MaxShownDepth
    /\ shown' = [pc |-> "asked", top |-> top, element |-> shown.exp.result[k],
                 exp |-> ProjectGetChildren(top, shown.exp.result[k])]
    /\ UNCHANGED <<ivars, top, call, calls>>

\* one lookup of the getChildren call of the tree view completes
ShownLookupDone(i) ==
    /\ shown.pc = "asked"
    /\ i \in PendingOf(shown.exp)
    /\ shown' = [shown EXCEPT !.exp = CompleteLookup(@, i)]
    /\ UNCHANGED <<ivars, top, call, calls>>

\* setInstance calls on one selected top
PathNext ==
    \/ \E t \in Tops : calls = <<>> /\ call = IdleCall /\ SelectTopLevel(t)
    \/ \E arg \in NextArguments : SetInstance(arg)
    \/ \E i \in PendingOf(call.exp) : CallLookupDone(i)
    \/ WalkStep

PathSpec == Init /\ [][PathNext]_vars

\* the top selected, reset and cleared, and the tree view opened
ViewNext ==
    \/ \E t \in Tops : SelectTopLevel(t)
    \/ \E r \in Tops \cup {Undefined} : SetTopLevel(r)
    \/ ClearTopLevel
    \/ ShowRoot
    \/ \E k \in 1..Len(shown.exp.result) : ShowChildren(k)
    \/ \E i \in PendingOf(shown.exp) : ShownLookupDone(i)

ViewSpec == Init /\ [][ViewNext]_vars

(***************************************************************************)
(* What setInstance does with a path (C11 to C14).                         *)
(***************************************************************************)
\* the returned setInstance calls made with a string while a top was selected
StringCalls == {i \in 1..Len(calls) : calls[i].top # Undefined /\ ~calls[i].arg.uri}

\* C11: resolving the empty path while a top is selected ends at the root
\* item of that top, and is not reported as an instance that was not found.
C11_EmptyPathResolvesToRoot ==
    \A i \in StringCalls :
        calls[i].arg.text = <<>> =>
            /\ calls[i].revealed = RootItem(calls[i].top)
            /\ calls[i].message = NoMessage

\* what a returned call did, as its caller sees it
Outcome(c) == [revealed |-> c.revealed, message |-> c.message]

\* C12, as stated: for every path, setInstance does the same for the path
\* and for the path with every bracketed run of digits removed.
C12_IndexSuffixesIgnored ==
    \A i \in StringCalls, j \in StringCalls :
        (/\ calls[i].top = calls[j].top
         /\ calls[j].arg.text = WithoutIndexSuffixes(calls[i].arg.text))
            => Outcome(calls[i]) = Outcome(calls[j])

\* C12, amended: setInstance does the same for a path and for the path with
\* every bracketed run of digits removed, provided the removal leaves no
\* bracketed run of digits behind (one pass turns a[[1]2] into a[2]).
C12_IndexSuffixesIgnoredOnePass ==
    \A i \in StringCalls, j \in StringCalls :
        (/\ calls[i].top = calls[j].top
         /\ calls[j].arg.text = WithoutIndexSuffixes(calls[i].arg.text)
         /\ WithoutIndexSuffixes(calls[j].arg.text) = calls[j].arg.text)
            => Outcome(calls[i]) = Outcome(calls[j])

\* Top.blk[12].u2 and then Top.blk.u2 were asked of top Top, and both calls
\* revealed the instance u2 inside the block
C12_Witness ==
    /\ Len(calls) = 2
    /\ calls[1].top = "Top" /\ calls[2].top = "Top"
    /\ calls[1].arg.text =
          <<"T","o","p",".","b","l","k","[","1","2","]",".","u","2">>
    /\ calls[2].arg.text = <<"T","o","p",".","b","l","k",".","u","2">>
    /\ calls[1].revealed.instance = "Top.blk.u2"
    /\ calls[2].revealed = calls[1].revealed

\* the item ModuleItem.getChildren makes for child symbol c of an item
ExpectedItem(parent, c) ==
    [cls |-> IF Symbols[c].type = "block" THEN "InternalScopeItem"
             ELSE IF Symbols[c].type = "instance" THEN "ModuleItem"
             ELSE "LogicItem",
     parent |-> parent,
     instance |-> c,
     definition |->
        IF Symbols[c].type # "instance" THEN c
        ELSE IF \E m \in Tops : Symbols[c].typeRef = <<Symbols[m].name>>
             THEN CHOOSE m \in Tops : Symbols[c].typeRef = <<Symbols[m].name>>
             ELSE Undefined]

\* the children of an item, in declaration order
ExpectedChildren(item) ==
    IF item.cls = "LogicItem" \/ item.definition = Undefined THEN <<>>
    ELSE LET kept == DeclaredKept(item.definition)
         IN  [k \in 1..Len(kept) |-> ExpectedItem(item, kept[k])]

\* the items a walk passes: the first of the candidates that bears the
\* first part, then the same among its children with the parts that
\* follow; the walk ends at the first part that no candidate bears
RECURSIVE Trail(_, _)
Trail(candidates, parts) ==
    IF parts = <<>> THEN <<>>
    ELSE LET hits == {k \in 1..Len(candidates) :
                         Symbols[candidates[k].instance].name = Head(parts)}
         IN  IF hits = {} THEN <<>>
             ELSE LET n == candidates[CHOOSE k \in hits : \A j \in hits : k <= j]
                  IN  <<n>> \o Trail(ExpectedChildren(n), Tail(parts))

\* the walk of setInstance: the first part is sought among the roots
TrailOfRoots(t, parts) == Trail(<<RootItem(t)>>, parts)

\* the names of the children of the root item of t
NamesUnderRoot(t) ==
    {Symbols[ExpectedChildren(RootItem(t))[k].instance].name :
        k \in 1..Len(ExpectedChildren(RootItem(t)))}

\* C13, as stated: a call that finds a part unmatched reveals nothing, asks
\* for no further children, and its message names that part and the item
\* under which it was sought; when the first part is not a child of the
\* top, the message names the top.
C13_UnmatchedSegmentReported ==
    \A i \in StringCalls :
        LET c     == calls[i]
            trail == TrailOfRoots(c.top, c.parts)
            k     == Len(trail) + 1
        IN  k <= Len(c.parts) =>
                /\ c.revealed = NoItem
                /\ c.fetched = k
                /\ c.message.shown
                /\ c.message.part = c.parts[k]
                /\ k > 1 => c.message.parent = Symbols[trail[k - 1].instance].name
                /\ (k = 1 /\ c.parts[1] \notin NamesUnderRoot(c.top))
                      => c.message.parent = Symbols[c.top].name

\* C13, amended: a call that finds a part unmatched reveals nothing, asks
\* for no further children, and its message names that part and the item
\* under which it was sought; when the first part is unmatched, which is
\* when it is not the name of the top itself, the message says 'top level'.
C13_UnmatchedSegmentReportedTopLevel ==
    \A i \in StringCalls :
        LET c     == calls[i]
            trail == TrailOfRoots(c.top, c.parts)
            k     == Len(trail) + 1
        IN  k <= Len(c.parts) =>
                /\ c.revealed = NoItem
                /\ c.fetched = k
                /\ c.message.shown
                /\ c.message.part = c.parts[k]
                /\ k > 1 => c.message.parent = Symbols[trail[k - 1].instance].name
                /\ k = 1 => c.message.parent = TopLevelText

\* Top.u2.blk was asked of top Top: u2 is not under Top, the message says
\* so, and the children of nothing were asked for the third part
C13_Witness ==
    \E i \in StringCalls :
        /\ calls[i].top = "Top"
        /\ calls[i].parts = <<<<"T","o","p">>, <<"u","2">>, <<"b","l","k">>>>
        /\ calls[i].message = [shown |-> TRUE, part |-> <<"u","2">>,
                               parent |-> <<"T","o","p">>]
        /\ calls[i].fetched = 2
        /\ calls[i].revealed = NoItem

\* a walk whose first part is sought among the children of the root item
TrailUnderRoot(t, parts) == Trail(ExpectedChildren(RootItem(t)), parts)

\* C14, as stated: the walk starts at the root item of the top, the first
\* part is sought among the children of the root item and each further part
\* among the children of the item reached, the first child in declaration
\* order that bears the part is taken, and the call reveals the item reached
\* after the last part.
C14_WalkStartsUnderRoot ==
    \A i \in StringCalls :
        LET c     == calls[i]
            trail == TrailUnderRoot(c.top, c.parts)
        IN  c.revealed = IF Len(trail) = Len(c.parts) THEN trail[Len(trail)] ELSE NoItem

\* C14, amended: the first part is sought among the roots, that is, it has
\* to be the name of the top; each further part is sought among the
\* children of the item reached, which are asked for once; the first child
\* in declaration order that bears the part is taken; the call reveals the
\* item reached after the last part, and shows no message.
C14_WalkStartsAtRoots ==
    \A i \in StringCalls :
        LET c     == calls[i]
            trail == TrailOfRoots(c.top, c.parts)
        IN  IF Len(trail) = Len(c.parts)
            THEN /\ c.revealed = trail[Len(trail)]
                 /\ c.message = NoMessage
                 /\ c.fetched = Len(c.parts)
            ELSE c.revealed = NoItem

\* Top.blk.u2 was asked of top Top: of the two children of the block named
\* u2 the call revealed the first, the instance of Leaf, not the register
C14_Witness ==
    \E i \in StringCalls :
        /\ calls[i].top = "Top"
        /\ calls[i].parts = <<<<"T","o","p">>, <<"b","l","k">>, <<"u","2">>>>
        /\ Symbols["Top.blk.w"].name = <<"u","2">>
        /\ calls[i].revealed =
              NewModuleItem(InternalScopeItem(RootItem("Top"), "Top.blk"),
                            "Top.blk.u2", "Leaf")

(***************************************************************************)
(* The order of the visits of a build (C15).                               *)
(***************************************************************************)
\* the paths of an item and of all items below it, the item first and then
\* its children one after the other as declared, each with all that is
\* below it; an item whose definition is on the path above it (defs) has
\* nothing below it
RECURSIVE PreOrder(_, _), PreOrderEach(_, _)
PreOrder(item, defs) ==
    <<HierPath(item)>> \o
        (IF item.definition # Undefined /\ item.definition \in defs THEN <<>>
         ELSE PreOrderEach(ExpectedChildren(item), defs \cup {item.definition}))

PreOrderEach(items, defs) ==
    IF items = <<>> THEN <<>>
    ELSE PreOrder(Head(items), defs) \o PreOrderEach(Tail(items), defs)

\* C15: a build visits an item before anything below it and the children of
\* an item depth-first in declaration order: at every moment the visits so
\* far are the beginning of the pre-order of the tree under the top, and a
\* completed build has made all of them.
C15_VisitsInPreOrder ==
    \A i \in BuildIds :
        LET all == PreOrder(RootItem(builds[i].top), {})
            v   == builds[i].visited
        IN  /\ Len(v) <= Len(all)
            /\ v = SubSeq(all, 1, Len(v))
            /\ builds[i].pc = "done" => v = all

\* the build of Top has completed: it visited Top, u1 and what is in u1,
\* clk, the block and what is in the block, and x last
C15_Witness ==
    \E i \in BuildIds :
        /\ builds[i].pc = "done" /\ builds[i].top = "Top"
        /\ builds[i].visited =
              << <<"T","o","p">>,
                 <<"T","o","p",".","u","1">>,
                 <<"T","o","p",".","u","1",".","a">>,
                 <<"T","o","p",".","u","1",".","W">>,
                 <<"T","o","p",".","c","l","k">>,
                 <<"T","o","p",".","b","l","k">>,
                 <<"T","o","p",".","b","l","k",".","u","2">>,
                 <<"T","o","p",".","b","l","k",".","u","2",".","a">>,
                 <<"T","o","p",".","b","l","k",".","u","2",".","W">>,
                 <<"T","o","p",".","b","l","k",".","u","2">>,
                 <<"T","o","p",".","x">> >>

(***************************************************************************)
(* The items the tree provider hands out (C16 to C19).                     *)
(***************************************************************************)
\* the getChildren call of the tree view has returned
ShownReturned == shown.pc = "asked" /\ shown.exp.returned

\* the items on the parent chain of an item, the item first
RECURSIVE Chain(_)
Chain(item) == <<item>> \o (IF item.parent = NoItem THEN <<>> ELSE Chain(item.parent))

\* C16: every item getChildren(element) returns has element as its parent,
\* and getParent gives it back; of all the items handed out, those on the
\* parent chains included, only a root item has no parent.
C16_ParentIsExpandedItem ==
    ShownReturned =>
        \A k \in 1..Len(shown.exp.result) :
            LET item == shown.exp.result[k]
            IN  /\ getParent(item) = shown.element
                /\ shown.element # NoItem => item.parent = shown.element
                /\ \A n \in 1..Len(Chain(item)) :
                      (getParent(Chain(item)[n]) = NoItem)
                          <=> (Chain(item)[n].cls = "RootItem" /\ n = Len(Chain(item)))

\* the tree view opened the root of Top and then the block: the two items
\* it was given have the block item as their parent
C16_Witness ==
    /\ ShownReturned
    /\ shown.element = InternalScopeItem(RootItem("Top"), "Top.blk")
    /\ Len(shown.exp.result) = 2
    /\ getParent(shown.exp.result[1]) = shown.element
    /\ getParent(shown.exp.result[2]) = shown.element
    /\ getParent(shown.element) = RootItem("Top")

\* the getChildren call of the tree view was made on an item of ModuleItem
\* or of a subclass of it that has a definition
ShownModuleExpansion ==
    /\ ShownReturned
    /\ shown.element # NoItem
    /\ shown.element.cls # "LogicItem"
    /\ shown.element.definition # Undefined

\* C17: for every child symbol that is not of an excluded kind, not a block
\* and not an instance, getChildren returns a LogicItem without a
\* definition, and getChildren of a LogicItem returns nothing.
C17_LeafHasNoDefinition ==
    /\ ShownModuleExpansion =>
          \A c \in DeclaredChildren(shown.element.definition) :
              Symbols[c].type \notin
                    {"enum", "typedef", "assert", "function", "block", "instance"}
                 => \E k \in 1..Len(shown.exp.result) :
                       /\ shown.exp.result[k].instance = c
                       /\ shown.exp.result[k].cls = "LogicItem"
                       /\ shown.exp.result[k].definition = Undefined
    /\ (shown.pc = "asked" /\ shown.element # NoItem /\ shown.element.cls = "LogicItem")
          => (shown.exp.returned /\ shown.exp.result = <<>>)

\* C18: for a child symbol of kind block, getChildren makes an
\* InternalScopeItem whose definition is the block symbol itself, at once
\* and with no lookup of a module; getChildren of that item returns the
\* items of the block's own children that are not of an excluded kind.
C18_BlockIsItsOwnDefinition ==
    /\ (shown.pc = "asked" /\ shown.element # NoItem
            /\ shown.element.cls # "LogicItem" /\ shown.element.definition # Undefined)
          => /\ \A c \in DeclaredChildren(shown.element.definition) :
                    Symbols[c].type = "block"
                        => \E k \in 1..Len(shown.exp.syms) : shown.exp.syms[k] = c
             /\ \A k \in 1..Len(shown.exp.syms) :
                    Symbols[shown.exp.syms[k]].type = "block"
                        => /\ shown.exp.items[k] =
                                 [cls |-> "InternalScopeItem", parent |-> shown.element,
                                  instance |-> shown.exp.syms[k],
                                  definition |-> shown.exp.syms[k]]
                           /\ k \notin Range(shown.exp.order)
    /\ (ShownReturned /\ shown.element # NoItem
            /\ shown.element.cls = "InternalScopeItem")
          => [k \in 1..Len(shown.exp.result) |-> shown.exp.result[k].instance]
                = DeclaredKept(shown.element.instance)

\* the tree view opened the root of Top: the lookups of the instances u1
\* and x have not answered, and the item of the block is there
C18_Witness ==
    /\ shown.pc = "asked" /\ ~shown.exp.returned
    /\ shown.element = RootItem("Top")
    /\ shown.exp.syms = <<"Top.u1", "Top.clk", "Top.blk", "Top.x">>
    /\ PendingOf(shown.exp) = {1, 4}
    /\ shown.exp.items[3] = ScopeItem("InternalScopeItem", RootItem("Top"), "Top.blk", "Top.blk")

\* C19: getChildren() without an element returns nothing when no top is
\* selected, and otherwise one root item, whose instance and definition are
\* the selected top and which has no parent.
C19_RootsFollowTheTop ==
    (shown.pc = "asked" /\ shown.element = NoItem) =>
        /\ shown.exp.returned
        /\ shown.exp.result =
              IF shown.top = Undefined THEN <<>>
              ELSE <<[cls |-> "RootItem", parent |-> NoItem,
                      instance |-> shown.top, definition |-> shown.top]>>

\* Big is selected and the tree view was given its one root item
C19_Witness ==
    /\ top = "Big"
    /\ shown.pc = "asked" /\ shown.element = NoItem /\ shown.top = "Big"
    /\ Len(shown.exp.result) = 1
    /\ shown.exp.result[1].instance = "Big"
    /\ shown.exp.result[1].definition = "Big"
    /\ shown.exp.result[1].parent = NoItem

(***************************************************************************)
(* The tree provider of the index view (C20).                              *)
(***************************************************************************)
\* instanceof ModuleItem, of the elements of the index view
IsIndexModuleItem(element) == "instances" \in DOMAIN element

\* InstancesView.getChildren: the module entries, the InstanceViewItems of
\* a ModuleItem, nothing for an InstanceViewItem
IndexGetChildren(mods, element) ==
    IF element = NoItem THEN Range(mods)
    ELSE IF IsIndexModuleItem(element) THEN Range(element.instances)
    ELSE {}

\* InstancesView.getParent: the ModuleItem that made the InstanceViewItem
IndexGetParent(mods, element) ==
    IF IsIndexModuleItem(element) THEN NoItem ELSE mods[element.parent]

\* C20: in every state, every entry (p, v) of the instances of a module
\* entry m has m as its parent, an inst whose path is p and whose definition
\* is the definition of m; so getParent of every element of getChildren(m)
\* is m, and getParent of a module entry is undefined.
C20_IndexEntriesConsistent ==
    \A m \in IndexGetChildren(modules, NoItem) :
        /\ m.definition \in DOMAIN modules /\ modules[m.definition] = m
        /\ \A p \in DOMAIN m.instances :
              /\ m.instances[p].parent = m.definition
              /\ HierPath(m.instances[p].inst) = p
              /\ m.instances[p].inst.definition = m.definition
        /\ \A v \in IndexGetChildren(modules, m) : IndexGetParent(modules, v) = m
        /\ IndexGetParent(modules, m) = NoItem

\* two builds of Top are under way at once: Leaf has its two instances in
\* the index, both with the entry of Leaf as their parent
C20_Witness ==
    /\ Len(builds) = 2 /\ builds[1].top = "Top" /\ builds[2].top = "Top"
    /\ builds[1].pc = "run" /\ builds[2].pc = "run"
    /\ "Leaf" \in DOMAIN modules
    /\ Cardinality(IndexGetChildren(modules, modules["Leaf"])) = 2
    /\ \A v \in IndexGetChildren(modules, modules["Leaf"]) :
          IndexGetParent(modules, v) = modules["Leaf"]

(***************************************************************************)
(* InstancesView.revealPath: the lookup of a path in the index.            *)
(***************************************************************************)
\* the revealPath calls of one behaviour
MaxReveals == 1

\* the paths asked of revealPath: one that a build of Top indexes, one of
\* an instance without a definition, which no build indexes
RevealPaths == {<<"T","o","p",".","u","1">>, <<"T","o","p",".","x">>}

\* moduleItem.instances.get(path): undefined when the path is not a key
InstancesGet(m, path) ==
    IF path \in DOMAIN m.instances THEN m.instances[path] ELSE NoItem

\* revealPath(module, path): modules.get(module) hands out the entry of
\* module, made by the factory when there was none, so moduleItem is never
\* undefined; the item at path, if any, is revealed
RevealPath(module, path) ==
    /\ reveal.n < MaxReveals
    /\ modules' = DefaultMapGet(modules, module)
    /\ reveal' = [n |-> reveal.n + 1, module |-> module, path |-> path,
                  before |-> modules, after |-> modules',
                  inst |-> InstancesGet(modules'[module], path)]
    /\ UNCHANGED <<builds, pvars>>

\* awaited builds and lookups in the index at any moment
RevealNext ==
    \/ \E t \in Tops : IndexTopAwaited(t)
    \/ \E i \in BuildIds : \E k \in PendingOf(builds[i].exp) : LookupDone(i, k)
    \/ \E i \in BuildIds : Advance(i)
    \/ \E m \in Tops, p \in RevealPaths : RevealPath(m, p)

RevealSpec == Init /\ [][RevealNext]_vars

\* C21: revealPath reads the index only: whatever the module and the path,
\* indexed or not, the module entries and their instances are after the
\* call what they were before it; a module without an entry gets none.
C21_RevealPathReadsOnly ==
    reveal.n > 0 => reveal.after = reveal.before
====
